---- MODULE Spec2Model ----
(***************************************************************************)
(* OAuth2 authorization-code login of jelly-actix-web-starter: the login   *)
(* initiation (src/oauth/views/login.rs), the callback pipeline            *)
(* (src/oauth/views/authorize.rs, jelly/src/oauth/mod.rs), the identity    *)
(* resolution transaction (src/accounts/models.rs) and the cookie session  *)
(* every request runs against (jelly/src/server.rs).                       *)
(*                                                                         *)
(* Option<T> is modelled as a sequence: None is << >>, Some(x) is <<x>>.   *)
(***************************************************************************)
EXTENDS Integers, Sequences, FiniteSets, TLC

\* ------------------------------------------------------------------ bounds
\* Number of HTTP requests the browsers send in one run of the whole application.
MaxRequests == 3
\* Number of HTTP requests the browsers send in one run of the login flow alone.
MaxFlowRequests == 3
\* Number of HTTP requests the browsers send in one run of identity resolution alone.
MaxResolves == 3
\* Number of HTTP requests the browsers send in one run of callback validation alone.
MaxValidations == 2
\* Registry calls made in one run.
MaxCalls == 3
\* Number of inputs of one split_inputs call, and of pieces of one input.
MaxInputs == 2
MaxPieces == 2
\* Number of requests that can be in flight at the same time.
MaxInFlight == 2
\* Number of CSRF/PKCE secrets the random generator is asked for in one run.
MaxFlows == 2
\* Number of messages flashed in one run.
MaxFlashes == 2

\* ------------------------------------------------------------ input values
None == << >>

Some(x) == << x >>

Sessions == {"s1", "s2"}

Slots == 1..MaxInFlight

KnownProviders == {"google", "twitter", "github"}

\* Provider keys a request may carry: two registered ones and one that is not.
ProviderKeys == {"google", "github", "gitlab"}

Usernames == {"u1", "u2"}

Names == {"n1", "n2"}

\* "" is the address that fails EmailField validation.
Emails == {"a@x", "b@x", ""}

Passwords == {"pw", "bad"}

Tokens == {"t1"}

Codes == {"c1"}

\* ---------------------------------------------------------------- registry
DEFAULT_PROVIDER == "google"

\* valid_provider that takes any key.
valid_provider_Any(provider) == TRUE

valid_provider(provider) == provider \in KnownProviders

uses_email_hint(provider) == provider = "google"

provider_hints(provider) ==
    IF valid_provider(provider)
    THEN Some([uses_email_hint |-> uses_email_hint(provider)])
    ELSE None

build_client(provider) ==
    CASE provider = "google" ->
           Some([key |-> "google", client_secret |-> TRUE,
                 scopes |-> <<"userinfo.email", "userinfo.profile">>,
                 login_hint_key |-> Some("login_hint"), user_info_de |-> "google_de"])
      [] provider = "twitter" ->
           Some([key |-> "twitter", client_secret |-> FALSE,
                 scopes |-> <<"tweet.read", "users.read">>,
                 login_hint_key |-> None, user_info_de |-> "twitter_de"])
      [] provider = "github" ->
           Some([key |-> "github", client_secret |-> TRUE,
                 scopes |-> <<"read:user">>,
                 login_hint_key |-> Some("login"), user_info_de |-> "github_de"])
      [] OTHER -> None

\* client_for on the cache `map`: the cache after the call and the client returned.
client_for(map, provider) ==
    IF valid_provider(provider)
    THEN LET provider_map == IF provider \in DOMAIN map
                             THEN map
                             ELSE [k \in DOMAIN map \cup {provider} |->
                                     IF k = provider THEN build_client(provider) ELSE map[k]]
         IN [map |-> provider_map, client |-> provider_map[provider]]
    ELSE [map |-> map, client |-> None]

\* The environment variables the server and the clients read.
EnvVars ==
    {"JELLY_DOMAIN", "GOOGLE_CLIENT_ID", "GOOGLE_CLIENT_SECRET", "TWITTER_CLIENT_ID",
     "GITHUB_CLIENT_ID", "GITHUB_CLIENT_SECRET"}

\* The variables build_generic_oauth expects for `provider`: client_id_env and,
\* where the configuration names one, client_secret_env.
ClientEnv(provider) ==
    CASE provider = "google" -> {"GOOGLE_CLIENT_ID", "GOOGLE_CLIENT_SECRET"}
      [] provider = "twitter" -> {"TWITTER_CLIENT_ID"}
      [] provider = "github" -> {"GITHUB_CLIENT_ID", "GITHUB_CLIENT_SECRET"}
      [] OTHER -> {}

\* A worker that is in no client_for call.
IdleCall == [pc |-> "idle", provider |-> "", ret |-> "none"]

\* ---------------------------------------------------------------- database
\* The sentinel stored as the password of an account that has no local password:
\* a text that is not the output of make_password.
NO_PASSWORD == Some(<< "sentinel", "" >>)

make_password(password) == << "hash", password >>

\* UserPass::check_password: an error without a stored password or with a
\* stored text the hasher does not recognise, else whether the password
\* matches the stored hash.
check_password(password, stored) ==
    IF stored = None \/ stored[1][1] # "hash"
    THEN [ok |-> FALSE, value |-> FALSE]
    ELSE [ok |-> TRUE, value |-> stored[1] = make_password(password)]

Max(S) == CHOOSE x \in S : \A y \in S : y <= x

Min(S) == CHOOSE x \in S : \A y \in S : x <= y

\* The id a serial column gives the next inserted row.
NextId(table) == IF DOMAIN table = {} THEN 1 ELSE Max(DOMAIN table) + 1

InsertRow(table, row) ==
    [i \in DOMAIN table \cup {NextId(table)} |-> IF i \in DOMAIN table THEN table[i] ELSE row]

AccountsByEmail(accts, email) == {i \in DOMAIN accts : accts[i].email = email}

\* SELECT id FROM accounts WHERE email = $1, fetch_one: no row is an error.
id_by_email(accts, email) ==
    IF AccountsByEmail(accts, email) = {} THEN None ELSE Some(Min(AccountsByEmail(accts, email)))

\* linked_account_id with the two bind parameters in the wrong order.
linked_account_id_Swapped(idents, provider, username) ==
    LET rows == {i \in DOMAIN idents :
                    idents[i].provider = username /\ idents[i].username = provider}
    IN IF rows = {} THEN None ELSE Some(idents[Min(rows)].account_id)

\* SELECT account_id FROM identities WHERE provider = $1 AND username = $2, fetch_optional.
linked_account_id(idents, provider, username) ==
    LET rows == {i \in DOMAIN idents :
                    idents[i].provider = provider /\ idents[i].username = username}
    IN IF rows = {} THEN None ELSE Some(idents[Min(rows)].account_id)

User(id, name) == [id |-> id, name |-> name, is_admin |-> FALSE, is_anonymous |-> FALSE]

\* User::default(), what request.user() yields without a session user.
AnonymousUser == [id |-> 0, name |-> "", is_admin |-> FALSE, is_anonymous |-> TRUE]

\* --------------------------------------------------- SQL statements on a tx
\* A database is [accounts, identities]; a transaction works on its own copy.
SameEmail(tx, email) == AccountsByEmail(tx.accounts, email) # {}

\* INSERT INTO accounts (name, email, password, last_login) ... RETURNING.
InsertAccount(tx, name, email, password, last_login) ==
    [tx EXCEPT !.accounts = InsertRow(tx.accounts,
        [name |-> name, email |-> email, password |-> password, last_login |-> last_login])]

\* INSERT INTO identities (account_id, provider, username, name, refresh_token).
InsertIdentity(tx, account_id, provider, username, name, refresh_token) ==
    [tx EXCEPT !.identities = InsertRow(tx.identities,
        [account_id |-> account_id, provider |-> provider, username |-> username,
         name |-> name, refresh_token |-> refresh_token])]

\* UPDATE accounts SET last_login = now() WHERE id = $1.
UpdateLastLogin(tx, id, now) ==
    [tx EXCEPT !.accounts[id].last_login = Some(now)]

\* UpdateNameAndLastLogin without the name in its SET clause.
UpdateNameAndLastLogin_KeepsName(tx, id, name, now) ==
    [tx EXCEPT !.accounts[id].last_login = Some(now)]

\* UPDATE accounts SET name = $1, last_login = now() WHERE id = $2.
UpdateNameAndLastLogin(tx, id, name, now) ==
    [tx EXCEPT !.accounts[id].name = name, !.accounts[id].last_login = Some(now)]

\* Rollback when the statements ran on the pool instead of the transaction.
RollbackKeepsWrites(db, tx) == tx

\* What the database holds when a transaction is dropped without commit.
Rollback(db, tx) == db

\* What the database holds after tx.commit().
Commit(db, tx) == tx

TxErr(db, tx, branch, error) ==
    [db |-> Rollback(db, tx), linked |-> None,
     result |-> [ok |-> FALSE, user |-> None, error |-> error, branch |-> branch]]

TxOk(db, tx, branch, id) ==
    [db |-> Commit(db, tx), linked |-> None,
     result |-> [ok |-> TRUE, user |-> Some(User(id, tx.accounts[id].name)),
                 error |-> "", branch |-> branch]]

\* `fail` is the number of the statement at which the database reports an error
\* (1 = begin, 2 = the identity lookup, 3.. = the statements of the branch, the
\* commit last); 0 is a run without database failure.
FailPoints == 0..5

\* The error of a statement the database refused.
DbError(stmt) ==
    CASE stmt = 1 -> "Database(begin)"
      [] stmt = 2 -> "Database(select)"
      [] stmt = 3 -> "Database(statement 1)"
      [] stmt = 4 -> "Database(statement 2)"
      [] stmt = 5 -> "Database(statement 3)"

\* (Some(linked_id), None): Login.
LoginBranch(db, tx, linked_id, fail, now) ==
    IF fail = 3 \/ linked_id \notin DOMAIN tx.accounts
    THEN TxErr(db, tx, "Login", DbError(3))
    ELSE LET tx1 == UpdateLastLogin(tx, linked_id, now)
         IN IF fail = 4 THEN TxErr(db, tx1, "Login", DbError(4))
            ELSE TxOk(db, tx1, "Login", linked_id)

\* (None, None): Register.
RegisterBranch(db, tx, form, refresh_token, fail, now) ==
    IF fail = 3 \/ SameEmail(tx, form.email)
    THEN TxErr(db, tx, "Register", DbError(3))
    ELSE LET id == NextId(tx.accounts)
             tx1 == InsertAccount(tx, form.name, form.email, NO_PASSWORD, Some(now))
         IN IF fail = 4 THEN TxErr(db, tx1, "Register", DbError(4))
            ELSE LET tx2 == InsertIdentity(tx1, id, form.provider, form.username,
                                           form.name, refresh_token)
                 IN IF fail = 5 THEN TxErr(db, tx2, "Register", DbError(5))
                    ELSE TxOk(db, tx2, "Register", id)

\* MergeBranch without the comparison of the two account ids.
MergeBranchNoCompare(db, tx, form, linked_id, account_id, fail, now) ==
    IF fail = 3 \/ account_id \notin DOMAIN tx.accounts
    THEN TxErr(db, tx, "Merge", DbError(3))
    ELSE LET tx1 == UpdateNameAndLastLogin(tx, account_id, form.name, now)
         IN IF fail = 4 THEN TxErr(db, tx1, "Merge", DbError(4))
            ELSE TxOk(db, tx1, "Merge", account_id)

\* (Some(linked_id), Some(account_id)): Merge when both are the same account,
\* else the linked-to-a-different-account error.
MergeBranch(db, tx, form, linked_id, account_id, fail, now) ==
    IF linked_id = account_id
    THEN IF fail = 3 \/ account_id \notin DOMAIN tx.accounts
         THEN TxErr(db, tx, "Merge", DbError(3))
         ELSE LET tx1 == UpdateNameAndLastLogin(tx, account_id, form.name, now)
              IN IF fail = 4 THEN TxErr(db, tx1, "Merge", DbError(4))
                 ELSE TxOk(db, tx1, "Merge", account_id)
    ELSE TxErr(db, tx, "Reject", "LinkedToDifferentAccount")

\* LinkBranch without its UPDATE of last_login.
LinkBranch_NoLastLogin(db, tx, form, refresh_token, account_id, fail, now) ==
    IF fail = 3 \/ fail = 4 \/ account_id \notin DOMAIN tx.accounts
    THEN TxErr(db, tx, "Link", DbError(IF fail = 4 THEN 4 ELSE 3))
    ELSE LET tx2 == InsertIdentity(tx, account_id, form.provider, form.username,
                                   form.name, refresh_token)
         IN IF fail = 5 THEN TxErr(db, tx2, "Link", DbError(5))
            ELSE TxOk(db, tx2, "Link", account_id)

\* (None, Some(account_id)): Linking Additional account.
LinkBranch(db, tx, form, refresh_token, account_id, fail, now) ==
    IF fail = 3 \/ account_id \notin DOMAIN tx.accounts
    THEN TxErr(db, tx, "Link", DbError(3))
    ELSE LET tx1 == UpdateLastLogin(tx, account_id, now)
         IN IF fail = 4 THEN TxErr(db, tx1, "Link", DbError(4))
            ELSE LET tx2 == InsertIdentity(tx1, account_id, form.provider, form.username,
                                           form.name, refresh_token)
                 IN IF fail = 5 THEN TxErr(db, tx2, "Link", DbError(5))
                    ELSE TxOk(db, tx2, "Link", account_id)

\* merge_identity_and_login matching on the account of the form's email where
\* it should match on the linked account.
merge_identity_and_login_ByEmail(db, form, refresh_token, current_account_id, fail, now) ==
    IF fail = 1 \/ fail = 2
    THEN TxErr(db, db, "None", DbError(fail))
    ELSE LET tx == db
             linked == linked_account_id(tx.identities, form.provider, form.username)
             by_email == id_by_email(tx.accounts, form.email)
             m == CASE by_email # None /\ current_account_id = None ->
                         LoginBranch(db, tx, by_email[1], fail, now)
                    [] by_email = None /\ current_account_id = None ->
                         RegisterBranch(db, tx, form, refresh_token, fail, now)
                    [] by_email # None /\ current_account_id # None ->
                         MergeBranch(db, tx, form, by_email[1], current_account_id[1],
                                     fail, now)
                    [] by_email = None /\ current_account_id # None ->
                         LinkBranch(db, tx, form, refresh_token, current_account_id[1],
                                    fail, now)
         IN [m EXCEPT !.linked = linked]

merge_identity_and_login(db, form, refresh_token, current_account_id, fail, now) ==
    IF fail = 1 \/ fail = 2
    THEN TxErr(db, db, "None", DbError(fail))
    ELSE LET tx == db
             linked == linked_account_id(tx.identities, form.provider, form.username)
             m == CASE linked # None /\ current_account_id = None ->
                         LoginBranch(db, tx, linked[1], fail, now)
                    [] linked = None /\ current_account_id = None ->
                         RegisterBranch(db, tx, form, refresh_token, fail, now)
                    [] linked # None /\ current_account_id # None ->
                         MergeBranch(db, tx, form, linked[1], current_account_id[1],
                                     fail, now)
                    [] linked = None /\ current_account_id # None ->
                         LinkBranch(db, tx, form, refresh_token, current_account_id[1],
                                    fail, now)
         IN [m EXCEPT !.linked = linked]

\* ------------------------------------------------------------------- state
VARIABLES
    db,         \* the database: [accounts, identities], each a table id -> row
    jar,        \* per browser, the session cookie it holds (CookieSessionStore)
    CLIENTS,    \* the process-wide client cache: provider key -> Option<ScopedClient>
    req,        \* per slot, the callback request a worker is running
    csrf_seq,   \* number of random secrets handed out so far
    clock,      \* number of requests received so far; the value of now()
    resp,       \* the last response sent
    rendered,   \* per browser, the identity of the last oauth/confirm.html it was sent
                \* and the refresh token of the token response behind it
    cb_done,    \* per browser, a callback was answered since the last stored flow
    environ,    \* the names of the environment variables the process has
    lock,       \* the mutex of CLIENTS: the worker holding it (0: free), poisoned or not
    calls,      \* per worker, the client_for call it is in
    returned,   \* the << provider, client >> pairs client_for has returned
    built,      \* per provider key, how many times its client was built
    ncalls,     \* number of registry calls made so far
    decode,     \* a call of a user-info deserializer: its arguments and its result
    split,      \* a call of split_inputs: its argument and its result
    flashes,    \* per browser, the SESSION_FLASH key of the session cookie it holds
    views,      \* per slot, the request that is using the flash messages
    delivered,  \* per message, the number of get_flash_messages that returned it
    nflash,     \* number of messages flashed so far
    txs,        \* per slot, the merge_identity_and_login transaction that is open
    serial      \* the last value of the id sequence of accounts

\* The state of the application's requests.
appVars == << db, jar, CLIENTS, req, csrf_seq, clock, resp, rendered, cb_done >>

\* The state the requests above leave alone: they run in a process that has
\* every variable the clients read, and their registry calls are atomic.
regVars == << environ, lock, calls, returned, built, ncalls >>

\* The calls of the functions that keep no state.
pureVars == << decode, split >>

\* The requests that flash messages or render them.
flashVars == << flashes, views, delivered, nflash >>

\* The transactions on the database, statement by statement.
txVars == << txs, serial >>

auxVars == << regVars, pureVars, flashVars, txVars >>

\* All but the registry's own state.
notRegistry == << appVars, pureVars, flashVars, txVars >>

\* All but the calls of the functions that keep no state.
notPure == << appVars, regVars, flashVars, txVars >>

\* All but the database and its transactions.
notTx ==
    << jar, CLIENTS, req, csrf_seq, clock, resp, rendered, cb_done, regVars, pureVars,
       flashVars >>

vars == << appVars, auxVars >>

EmptySession == [sku |-> None, flow |-> None, token |-> None]

IdleSlot ==
    [pc |-> "idle", sid |-> "", session |-> EmptySession, client_flow |-> None,
     token_info |-> None, user_info |-> None, error |-> "", message |-> "",
     form |-> None, replay |-> FALSE]

NoResp ==
    [kind |-> "", sid |-> "", status |-> "", error |-> "", branch |-> "",
     user |-> None, caller |-> None, current |-> None, linked |-> None,
     refresh_token |-> None]

\* No request received yet.
InitSess ==
    /\ jar = [s \in Sessions |-> EmptySession]
    /\ CLIENTS = << >>
    /\ req = [r \in Slots |-> IdleSlot]
    /\ csrf_seq = 0
    /\ clock = 0
    /\ resp = NoResp
    /\ rendered = [s \in Sessions |-> None]
    /\ cb_done = [s \in Sessions |-> FALSE]

InitApp ==
    /\ db = [accounts |-> << >>, identities |-> << >>]
    /\ InitSess

\* No registry call under way, nothing built or returned yet.
InitRegistryCalls ==
    /\ lock = [holder |-> 0, poisoned |-> FALSE]
    /\ calls = [w \in Slots |-> IdleCall]
    /\ returned = {}
    /\ built = [k \in KnownProviders \cup {"gitlab"} |-> 0]
    /\ ncalls = 0

\* No call of a deserializer or of split_inputs.
InitPure ==
    /\ decode = [de |-> "", body |-> None, email |-> "", done |-> FALSE, out |-> None]
    /\ split = [inputs |-> << >>, done |-> FALSE, out |-> << >>]

\* A request that is using no flash message.
IdleView == [pc |-> "idle", sid |-> "", stack |-> None, got |-> << >>]

\* No message flashed yet.
InitFlash ==
    /\ flashes = [s \in Sessions |-> None]
    /\ views = [r \in Slots |-> IdleView]
    /\ delivered = << >>
    /\ nflash = 0

\* A slot with no transaction open.
IdleTx ==
    [pc |-> "idle", form |-> None, account_id |-> None, fail |-> 0, branch |-> "None",
     id |-> 0, writes |-> << >>, error |-> ""]

\* No transaction open.
InitTxs ==
    /\ txs = [t \in Slots |-> IdleTx]
    /\ serial = 0

Init ==
    /\ InitApp /\ environ = EnvVars /\ InitRegistryCalls
    /\ InitPure /\ InitFlash /\ InitTxs

\* ----------------------------------------------------------------- session
\* request.is_authenticated(): the session holds a user.
is_authenticated(session) == session.sku # None

\* request.user(): the session's user, or the anonymous default.
user(session) == IF session.sku = None THEN AnonymousUser ELSE session.sku[1]

\* request.set_user(user).
set_user(session, u) == [session EXCEPT !.sku = Some(u)]

\* TakeFlow without the removal of the flow.
TakeFlowKeepsFlow(session) ==
    [maybe_flow |-> session.flow,
     session |-> [session EXCEPT !.token = None]]

\* The head of validate_inputs: read the flow, then remove flow and token.
TakeFlow(session) ==
    [maybe_flow |-> session.flow,
     session |-> [session EXCEPT !.flow = None, !.token = None]]

\* set_authorization_code that returns the flow as it was.
set_authorization_code_Noop(flow, code) == flow

set_authorization_code(flow, code) == [flow EXCEPT !.authorization_code = code]

OAuthErr(kind, message) == [ok |-> FALSE, error |-> kind, message |-> message, value |-> None]

OAuthOk(value) == [ok |-> TRUE, error |-> "", message |-> "", value |-> Some(value)]

\* MatchFlow looking at the query's error before the flow.
MatchFlow_ErrorFirst(map, maybe_flow, query) ==
    IF query.error # None
    THEN [map |-> map, result |-> OAuthErr("GrantAuthorizationError", query.error[1])]
    ELSE IF maybe_flow = None
    THEN [map |-> map, result |-> OAuthErr("ParseSessionError", "")]
    ELSE LET flow == maybe_flow[1]
         IN IF query.state # None /\ query.code # None
            THEN IF query.state[1] = flow.csrf_token_secret
                 THEN LET c == client_for(map, flow.provider)
                      IN [map |-> c.map,
                          result |->
                            IF c.client # None
                            THEN OAuthOk([client |-> c.client[1],
                                          flow |-> set_authorization_code(flow, query.code[1])])
                            ELSE OAuthErr("ParseSessionError", "")]
                 ELSE [map |-> map, result |-> OAuthErr("VerifyStateError", "")]
            ELSE [map |-> map, result |-> OAuthErr("ParseRequestError", "")]

\* MatchFlow comparing the state before it looks for the code.
MatchFlow_StateBeforeCode(map, maybe_flow, query) ==
    IF maybe_flow = None
    THEN [map |-> map, result |-> OAuthErr("ParseSessionError", "")]
    ELSE LET flow == maybe_flow[1]
         IN IF query.error # None
            THEN [map |-> map, result |-> OAuthErr("GrantAuthorizationError", query.error[1])]
            ELSE IF query.state # None /\ query.state[1] # flow.csrf_token_secret
                 THEN [map |-> map, result |-> OAuthErr("VerifyStateError", "")]
                 ELSE IF query.state # None /\ query.code # None
                 THEN LET c == client_for(map, flow.provider)
                      IN [map |-> c.map,
                          result |->
                            IF c.client # None
                            THEN OAuthOk([client |-> c.client[1],
                                          flow |-> set_authorization_code(flow, query.code[1])])
                            ELSE OAuthErr("ParseSessionError", "")]
                 ELSE [map |-> map, result |-> OAuthErr("ParseRequestError", "")]

\* The match of validate_inputs on the flow read from the session and the query.
MatchFlow(map, maybe_flow, query) ==
    IF maybe_flow = None
    THEN [map |-> map, result |-> OAuthErr("ParseSessionError", "")]
    ELSE LET flow == maybe_flow[1]
         IN IF query.error # None
            THEN [map |-> map, result |-> OAuthErr("GrantAuthorizationError", query.error[1])]
            ELSE IF query.state # None /\ query.code # None
                 THEN IF query.state[1] = flow.csrf_token_secret
                      THEN LET c == client_for(map, flow.provider)
                           IN [map |-> c.map,
                               result |->
                                 IF c.client # None
                                 THEN OAuthOk([client |-> c.client[1],
                                               flow |-> set_authorization_code(flow, query.code[1])])
                                 ELSE OAuthErr("ParseSessionError", "")]
                      ELSE [map |-> map, result |-> OAuthErr("VerifyStateError", "")]
                 ELSE [map |-> map, result |-> OAuthErr("ParseRequestError", "")]

validate_inputs(map, session, query) ==
    LET t == TakeFlow(session)
        m == MatchFlow(map, t.maybe_flow, query)
    IN [session |-> t.session, map |-> m.map, result |-> m.result]

\* ------------------------------------------------- token and user-info step
\* What the provider's token endpoint can answer; None is a failed exchange.
TokenResponses ==
    {None} \cup {Some([access_token |-> "at", refresh_token |-> rt]) :
                    rt \in {None} \cup {Some(t) : t \in Tokens}}

request_token(client_flow, response) ==
    IF response = None
    THEN OAuthErr("GrantTokenError", "")
    ELSE OAuthOk([provider |-> client_flow.flow.provider,
                  email |-> client_flow.flow.email,
                  response |-> response[1],
                  user_info_de |-> client_flow.client.user_info_de])

Digit(d) == CASE d = 0 -> "0" [] d = 1 -> "1" [] d = 2 -> "2" [] d = 3 -> "3" [] d = 4 -> "4"
              [] d = 5 -> "5" [] d = 6 -> "6" [] d = 7 -> "7" [] d = 8 -> "8" [] d = 9 -> "9"

RECURSIVE to_string(_)
\* i32::to_string of a non-negative id: its decimal digits.
to_string(n) == IF n < 10 THEN << Digit(n) >> ELSE Append(to_string(n \div 10), Digit(n % 10))

\* set_email that leaves the login email as the conversion made it.
set_email_Unset(ui, email) == ui

set_email(ui, email) == [ui EXCEPT !.login_email = email]

\* A user-info body is the JSON object the provider sent, a missing member is None.
google_de(body, email) ==
    IF body.id = None \/ body.name = None \/ body.email = None
    THEN None
    ELSE Some(set_email([provider |-> "google", id |-> body.id[1], name |-> body.name[1],
                         username |-> body.email[1], login_email |-> "",
                         provider_email |-> Some(body.email[1])], email))

twitter_de(body, email) ==
    IF body.id = None \/ body.name = None \/ body.username = None
    THEN None
    ELSE Some(set_email([provider |-> "twitter", id |-> body.id[1], name |-> body.name[1],
                         username |-> body.username[1], login_email |-> "",
                         provider_email |-> None], email))

github_de(body, email) ==
    IF body.id = None \/ body.name = None \/ body.username = None
    THEN None
    ELSE Some(set_email([provider |-> "github", id |-> to_string(body.id[1]),
                         name |-> body.name[1], username |-> body.username[1],
                         login_email |-> "", provider_email |-> body.email], email))

user_info_de(de, body, email) ==
    CASE de = "google_de" -> google_de(body, email)
      [] de = "twitter_de" -> twitter_de(body, email)
      [] de = "github_de" -> github_de(body, email)

\* The bodies the user-info endpoint of `provider` can answer with.
Bodies(provider) ==
    {[utf8 |-> TRUE, id |-> i, name |-> n, username |-> u, email |-> e] :
        i \in {Some(IF provider = "github" THEN 12 ELSE to_string(12))},
        n \in {None, Some("n1")},
        u \in {Some("u1"), Some("u2")},
        e \in {None, Some("u2")}}

\* An answer of the user-info endpoint whose bytes are not UTF-8 text.
NotUtf8 == [utf8 |-> FALSE, id |-> None, name |-> None, username |-> None, email |-> None]

\* A call that panicked: it returns nothing.
Panic == [ok |-> FALSE, error |-> "panic", message |-> "", value |-> None]

\* fetch_user_info: `http` is None when the transport fails, else Some(body);
\* str::from_utf8(..).unwrap() panics on a body that is not UTF-8.
fetch_user_info(session, token_info, http) ==
    LET refresh_token == token_info.response.refresh_token
        session1 == IF refresh_token # None
                    THEN [session EXCEPT !.token = refresh_token]
                    ELSE session
    IN [session |-> session1,
        result |->
          IF http = None
          THEN OAuthErr("FetchProfileError", "")
          ELSE IF ~http[1].utf8
          THEN Panic
          ELSE LET ui == user_info_de(token_info.user_info_de, http[1], token_info.email)
               IN IF ui = None THEN OAuthErr("DecodeProfileError", "") ELSE OAuthOk(ui[1])]

\* finalize_authentication: the form rendered into oauth/confirm.html.
finalize_authentication(user_info) ==
    [provider |-> user_info.provider, username |-> user_info.username,
     name |-> user_info.name, email |-> user_info.login_email]

\* ------------------------------------------------------ callback, by steps
Queries ==
    {[code |-> c, state |-> st, error |-> e] :
        c \in {None} \cup {Some(x) : x \in Codes},
        st \in {None} \cup {Some(k) : k \in 0..MaxFlows},
        e \in {None, Some("access_denied"), Some("server_error")}}

\* The slot a new request is given: the lowest idle one.
FreeSlot(r) == req[r].pc = "idle" /\ \A q \in Slots : q < r => req[q].pc # "idle"

\* GET /oauth/callback/: the session is loaded from the cookie and validate_inputs runs.
CallbackBegin(r, s, query) ==
    /\ FreeSlot(r)
    /\ LET v == validate_inputs(CLIENTS, jar[s], query)
       IN /\ CLIENTS' = v.map
          /\ req' = [req EXCEPT ![r] =
                [IdleSlot EXCEPT !.pc = IF v.result.ok THEN "token" ELSE "respond",
                                 !.sid = s,
                                 !.session = v.session,
                                 !.client_flow = v.result.value,
                                 !.error = v.result.error,
                                 !.message = v.result.message,
                                 !.replay = cb_done[s]]]
    /\ clock' = clock + 1
    /\ UNCHANGED << db, jar, csrf_seq, resp, rendered, cb_done >>
    /\ UNCHANGED auxVars

\* A token step that stays at the exchange when the exchange fails.
RequestToken_Retries(r, response) ==
    /\ req[r].pc = "token"
    /\ LET t == request_token(req[r].client_flow[1], response)
       IN req' = [req EXCEPT ![r].pc = IF t.ok THEN "userinfo" ELSE "token",
                             ![r].token_info = t.value,
                             ![r].error = t.error]
    /\ UNCHANGED << db, jar, CLIENTS, csrf_seq, clock, resp, rendered, cb_done >>
    /\ UNCHANGED auxVars

\* oauth::request_token on the validated flow.
RequestToken(r, response) ==
    /\ req[r].pc = "token"
    /\ LET t == request_token(req[r].client_flow[1], response)
       IN req' = [req EXCEPT ![r].pc = IF t.ok THEN "userinfo" ELSE "respond",
                             ![r].token_info = t.value,
                             ![r].error = t.error]
    /\ UNCHANGED << db, jar, CLIENTS, csrf_seq, clock, resp, rendered, cb_done >>
    /\ UNCHANGED auxVars

\* oauth::fetch_user_info on the token; the endpoint's answer is the input.
FetchUserInfo(r, http) ==
    /\ req[r].pc = "userinfo"
    /\ LET f == fetch_user_info(req[r].session, req[r].token_info[1], http)
       IN req' = [req EXCEPT ![r].pc = IF f.result.ok THEN "finalize"
                                       ELSE IF f.result = Panic THEN "panicked"
                                       ELSE "respond",
                               ![r].session = f.session,
                               ![r].user_info = f.result.value,
                               ![r].error = f.result.error]
    /\ UNCHANGED << db, jar, CLIENTS, csrf_seq, clock, resp, rendered, cb_done >>
    /\ UNCHANGED auxVars

\* finalize_authentication renders the confirmation form.
Finalize(r) ==
    /\ req[r].pc = "finalize"
    /\ req' = [req EXCEPT ![r].pc = "respond",
                          ![r].form = Some(finalize_authentication(req[r].user_info[1]))]
    /\ UNCHANGED << db, jar, CLIENTS, csrf_seq, clock, resp, rendered, cb_done >>
    /\ UNCHANGED auxVars

\* The response leaves: the session middleware writes the request's session
\* into the cookie, whatever the handler returned.
CallbackEnd(r) ==
    /\ req[r].pc = "respond"
    /\ LET s == req[r].sid
       IN /\ jar' = [jar EXCEPT ![s] = req[r].session]
          /\ resp' = [NoResp EXCEPT 
                                    !.kind = "callback",
                                    !.sid = s,
                                    !.status = IF req[r].error = "" THEN "200" ELSE "error",
                                    !.error = req[r].error]
          /\ rendered' = IF req[r].form = None THEN rendered
                         ELSE [rendered EXCEPT ![s] =
                                 Some([provider |-> req[r].form[1].provider,
                                       username |-> req[r].form[1].username,
                                       refresh_token |->
                                         req[r].token_info[1].response.refresh_token])]
          /\ cb_done' = [cb_done EXCEPT ![s] = TRUE]
    /\ req' = [req EXCEPT ![r] = IdleSlot]
    /\ UNCHANGED << db, CLIENTS, csrf_seq, clock >>
    /\ UNCHANGED auxVars

\* The panic unwinds the handler: the connection is closed without a response,
\* so without a Set-Cookie, and the slot is free again. A build in which the
\* panic ends the worker is the run in which this step is never taken.
Unwind(r) ==
    /\ req[r].pc = "panicked"
    /\ req' = [req EXCEPT ![r] = IdleSlot]
    /\ UNCHANGED << db, jar, CLIENTS, csrf_seq, clock, resp, rendered, cb_done >>
    /\ UNCHANGED auxVars

\* ------------------------------------------------------- login initiation
\* EmailField::validate on a keyed field: the value is a non-blank address.
validate_email(email) == email # ""

\* OAuthLoginForm::validate.
LoginFormValid(form) == IF form.email_hint THEN validate_email(form.email) ELSE TRUE

OAuthLoginForms ==
    {[provider |-> p, email_hint |-> h, email |-> e] :
        p \in ProviderKeys, h \in BOOLEAN, e \in Emails}

\* pkce_authorization_request with the n-th pair of random secrets.
pkce_authorization_request(client, login_hint, n) ==
    [csrf_token |-> n,
     pkce_code_verifier |-> << "verifier", n >>,
     scopes |-> client.scopes,
     extra_param |-> IF client.login_hint_key # None /\ login_hint # None
                     THEN Some(<< client.login_hint_key[1], login_hint[1] >>)
                     ELSE None]

\* request_authorization that keeps a flow the session already holds.
request_authorization_KeepsOld(map, session, provider, email, n) ==
    LET c == client_for(map, provider)
    IN IF c.client # None
       THEN LET a == pkce_authorization_request(c.client[1], Some(email), n)
                flow == [provider |-> provider, email |-> email, authorization_code |-> "",
                         csrf_token_secret |-> a.csrf_token,
                         pkce_verifier_secret |-> a.pkce_code_verifier]
            IN [map |-> c.map,
                session |-> IF session.flow = None
                            THEN [session EXCEPT !.flow = Some(flow)] ELSE session,
                status |-> "302", error |-> ""]
       ELSE [map |-> c.map, session |-> session, status |-> "error",
             error |-> "RegisterProviderError"]

\* request_authorization: the session after it and its outcome.
request_authorization(map, session, provider, email, n) ==
    LET c == client_for(map, provider)
    IN IF c.client # None
       THEN LET a == pkce_authorization_request(c.client[1], Some(email), n)
                flow == [provider |-> provider, email |-> email, authorization_code |-> "",
                         csrf_token_secret |-> a.csrf_token,
                         pkce_verifier_secret |-> a.pkce_code_verifier]
            IN [map |-> c.map, session |-> [session EXCEPT !.flow = Some(flow)],
                status |-> "302", error |-> ""]
       ELSE [map |-> c.map, session |-> session, status |-> "error",
             error |-> "RegisterProviderError"]

\* GET /oauth/login/: views::login::form.
LoginForm(s, provider) ==
    /\ clock' = clock + 1
    /\ IF is_authenticated(jar[s])
       THEN /\ resp' = [NoResp EXCEPT !.kind = "form", !.sid = s,
                                      !.status = "302"]
            /\ UNCHANGED jar
       ELSE /\ jar' = [jar EXCEPT ![s].flow = None]
            /\ resp' = [NoResp EXCEPT !.kind = "form", !.sid = s,
                                      !.status = "200"]
    /\ UNCHANGED << db, CLIENTS, req, csrf_seq, rendered, cb_done >>
    /\ UNCHANGED auxVars

\* POST /oauth/login/: views::login::authenticate.
Authenticate(s, form) ==
    /\ clock' = clock + 1
    /\ IF is_authenticated(jar[s])
       THEN /\ resp' = [NoResp EXCEPT !.kind = "authenticate",
                                      !.sid = s, !.status = "302"]
            /\ UNCHANGED << jar, CLIENTS, csrf_seq, cb_done >>
       ELSE IF ~LoginFormValid(form)
       THEN /\ resp' = [NoResp EXCEPT !.kind = "authenticate",
                                      !.sid = s, !.status = "400"]
            /\ UNCHANGED << jar, CLIENTS, csrf_seq, cb_done >>
       ELSE LET a == request_authorization(CLIENTS, jar[s], form.provider, form.email,
                                           csrf_seq + 1)
            IN /\ a.error = "" => csrf_seq < MaxFlows
               /\ csrf_seq' = IF a.error = "" THEN csrf_seq + 1 ELSE csrf_seq
               /\ CLIENTS' = a.map
               /\ jar' = [jar EXCEPT ![s] = a.session]
               /\ cb_done' = IF a.error = "" THEN [cb_done EXCEPT ![s] = FALSE] ELSE cb_done
               /\ resp' = [NoResp EXCEPT !.kind = "authenticate",
                                         !.sid = s, !.status = a.status, !.error = a.error]
    /\ UNCHANGED << db, req, rendered >>
    /\ UNCHANGED auxVars

\* -------------------------------------------------- identity confirmation
\* The remote identities a confirmation form can name: two at one provider and
\* one at another.
RemoteIdentities == {<< "google", "u1" >>, << "google", "u2" >>, << "github", "u1" >>}

\* The forms a browser can post: each remote identity with either address, the
\* first identity under either name and the others under one, and one form with
\* an invalid address.
LinkIdentityForms ==
    {[provider |-> i[1], username |-> i[2], name |-> n, email |-> e] :
        i \in {<< "google", "u1" >>}, n \in Names, e \in Emails \ {""}}
    \cup {[provider |-> i[1], username |-> i[2], name |-> "n2", email |-> e] :
        i \in RemoteIdentities \ {<< "google", "u1" >>}, e \in Emails \ {""}}
    \cup {[provider |-> "google", username |-> "u1", name |-> "n1", email |-> ""]}

\* LinkIdentityForm validation: a valid address and a non-blank name.
is_valid(form) == validate_email(form.email) /\ form.name # ""

\* The account id confirm_identity resolves the caller to.
CurrentAccountId(accts, u, form) ==
    IF u.is_anonymous THEN id_by_email(accts, form.email) ELSE Some(u.id)

\* POST of oauth/confirm.html: views::authorize::confirm_identity.
ConfirmIdentity(s, form, fail) ==
    /\ clock' = clock + 1
    /\ IF ~is_valid(form)
       THEN /\ resp' = [NoResp EXCEPT !.kind = "confirm", !.sid = s,
                                      !.status = "400", !.error = "Invalid email."]
            /\ UNCHANGED << db, jar >>
       ELSE LET refresh_token == jar[s].token
                u == user(jar[s])
                account_id == CurrentAccountId(db.accounts, u, form)
                m == merge_identity_and_login(db, form, refresh_token, account_id, fail,
                                              clock + 1)
            IN /\ db' = m.db
               /\ jar' = IF m.result.ok
                         THEN [jar EXCEPT ![s] = set_user(jar[s], m.result.user[1])]
                         ELSE jar
               /\ resp' = [NoResp EXCEPT !.kind = "confirm", !.sid = s,
                                         !.status = IF m.result.ok THEN "302" ELSE "400",
                                         !.error = m.result.error,
                                         !.branch = m.result.branch,
                                         !.user = m.result.user,
                                         !.caller = jar[s].sku,
                                         !.current = account_id,
                                         !.linked = m.linked,
                                         !.refresh_token = refresh_token]
    /\ UNCHANGED << CLIENTS, req, csrf_seq, rendered, cb_done >>
    /\ UNCHANGED auxVars

\* ------------------------------------------------------- local accounts
\* The registration forms a browser can post: an address the confirmation forms
\* use too, and one they do not.
NewAccountForms ==
    {[name |-> "n1", email |-> e, password |-> "pw"] : e \in {"a@x", "c@x"}}

\* Account::register: the email column takes no duplicate.
register(d, form) ==
    IF SameEmail(d, form.email)
    THEN d
    ELSE InsertAccount(d, form.name, form.email, Some(make_password(form.password)), None)

\* POST /accounts/register/: views::register::create_account.
CreateAccount(s, form) ==
    /\ clock' = clock + 1
    /\ db' = IF is_authenticated(jar[s]) THEN db ELSE register(db, form)
    /\ resp' = [NoResp EXCEPT !.kind = "create_account", !.sid = s,
                              !.status = "302"]
    /\ UNCHANGED << jar, CLIENTS, req, csrf_seq, rendered, cb_done >>
    /\ UNCHANGED auxVars

LoginForms == {[email |-> e, password |-> p] : e \in {"a@x", "c@x"}, p \in Passwords}

\* Account::authenticate: the row of the email, then check_password, of which
\* the `?` propagates the error only: the boolean it yields is dropped.
AccountAuthenticate(accts, form) ==
    LET id == id_by_email(accts, form.email)
    IN IF id = None THEN None
       ELSE IF ~check_password(form.password, accts[id[1]].password).ok THEN None
       ELSE Some(User(id[1], accts[id[1]].name))

\* POST /accounts/login/: accounts::views::login::authenticate.
AccountsLogin(s, form) ==
    /\ clock' = clock + 1
    /\ LET u == IF is_authenticated(jar[s]) THEN None
                ELSE AccountAuthenticate(db.accounts, form)
       IN /\ db' = IF u = None THEN db ELSE UpdateLastLogin(db, u[1].id, clock + 1)
          /\ jar' = IF u = None THEN jar ELSE [jar EXCEPT ![s] = set_user(jar[s], u[1])]
          /\ resp' = [NoResp EXCEPT !.kind = "login", !.sid = s,
                                    !.status = IF is_authenticated(jar[s]) \/ u # None
                                               THEN "302" ELSE "400",
                                    !.user = u,
                                    !.caller = jar[s].sku]
    /\ UNCHANGED << CLIENTS, req, csrf_seq, rendered, cb_done >>
    /\ UNCHANGED auxVars

\* ------------------------------------------------------------ specification
\* The browsers that can send a request: "s1" names the browser that sends the
\* first request of a run, "s2" the other one.
Browsers == IF clock = 0 THEN {"s1"} ELSE Sessions

\* The requests of the OAuth login flow a browser can send, `limit` requests a run.
StartFlow(limit) ==
    \/ /\ clock < limit
       /\ \E r \in Slots, s \in Browsers, query \in Queries : CallbackBegin(r, s, query)
    \/ /\ clock < limit
       /\ \E s \in Browsers, provider \in ProviderKeys : LoginForm(s, provider)
    \/ /\ clock < limit
       /\ \E s \in Browsers, form \in OAuthLoginForms : Authenticate(s, form)

\* What the user-info endpoint answers the request of slot `r` when it sends
\* text: no answer, or one of the bodies of the provider.
UserInfoAnswers(r) ==
    IF req[r].token_info = None THEN {}
    ELSE {None} \cup {Some(b) : b \in Bodies(req[r].token_info[1].provider)}

\* The steps of the callback requests in flight.
StepFlow ==
    \/ \E r \in Slots, response \in TokenResponses : RequestToken(r, response)
    \/ \E r \in Slots : \E http \in UserInfoAnswers(r) : FetchUserInfo(r, http)
    \/ \E r \in Slots : Finalize(r)
    \/ \E r \in Slots : CallbackEnd(r)

\* The requests that read or write accounts and identities, `limit` requests a run.
Resolve(limit) ==
    \/ /\ clock < limit
       /\ \E s \in Browsers, form \in LinkIdentityForms, fail \in FailPoints :
            ConfirmIdentity(s, form, fail)
    \/ /\ clock < limit
       /\ \E s \in Browsers, form \in NewAccountForms : CreateAccount(s, form)
    \/ /\ clock < limit
       /\ \E s \in Browsers, form \in LoginForms : AccountsLogin(s, form)

\* The whole application.
Next == StartFlow(MaxRequests) \/ Resolve(MaxRequests) \/ StepFlow

Spec == Init /\ [][Next]_vars

\* The OAuth login flow alone: login initiation and callback.
NextFlow == StartFlow(MaxFlowRequests) \/ StepFlow

SpecFlow == Init /\ [][NextFlow]_vars

\* The OAuth login flow over the few requests one validation of a callback takes.
NextValidate == StartFlow(MaxValidations) \/ StepFlow

SpecValidate == Init /\ [][NextValidate]_vars

\* The OAuth login flow with a user-info endpoint that can also answer bytes
\* that are not text.
NextWorker ==
    \/ StartFlow(MaxValidations)
    \/ StepFlow
    \/ \E r \in Slots : FetchUserInfo(r, Some(NotUtf8))
    \/ \E r \in Slots : Unwind(r)

SpecWorker == Init /\ [][NextWorker]_vars

\* Identity resolution and the local accounts alone.
NextResolve == Resolve(MaxResolves)

SpecResolve == Init /\ [][NextResolve]_vars

\* ------------------------------------------------------------- the registry
\* The keys the registry is asked for: the known providers and one it does not
\* know.
RegistryKeys == KnownProviders \cup {"gitlab"}

\* The environments a process can be started in: every variable set, or one
\* of them missing.
Environments == {EnvVars} \cup {EnvVars \ {v} : v \in EnvVars}

\* A worker enters client_for(provider): valid_provider decides whether the
\* cache is looked at; an unknown key returns None at once.
ClientForCall(w, provider) ==
    /\ ncalls < MaxCalls
    /\ calls[w].pc = "idle"
    /\ ncalls' = ncalls + 1
    /\ IF valid_provider(provider)
       THEN /\ calls' = [calls EXCEPT ![w] = [pc |-> "lock", provider |-> provider,
                                              ret |-> "none"]]
            /\ UNCHANGED returned
       ELSE /\ calls' = [calls EXCEPT ![w] = [pc |-> "idle", provider |-> provider,
                                              ret |-> "None"]]
            /\ returned' = returned \cup {<< "client_for", provider, None >>}
    /\ UNCHANGED << notRegistry, environ, lock, built >>

\* CLIENTS.lock() taken without waiting for the worker that holds it.
ClientForLock_NoWait(w) ==
    /\ calls[w].pc = "lock"
    /\ IF lock.poisoned
       THEN /\ calls' = [calls EXCEPT ![w].pc = "idle", ![w].ret = "panic"]
            /\ UNCHANGED lock
       ELSE /\ lock' = [lock EXCEPT !.holder = w]
            /\ calls' = [calls EXCEPT ![w].pc = "check"]
    /\ UNCHANGED << notRegistry, environ, returned, built, ncalls >>

\* CLIENTS.lock().unwrap(): waits for the mutex; a poisoned mutex is an Err
\* and the unwrap panics.
ClientForLock(w) ==
    /\ calls[w].pc = "lock"
    /\ lock.holder = 0
    /\ IF lock.poisoned
       THEN /\ calls' = [calls EXCEPT ![w].pc = "idle", ![w].ret = "panic"]
            /\ UNCHANGED lock
       ELSE /\ lock' = [lock EXCEPT !.holder = w]
            /\ calls' = [calls EXCEPT ![w].pc = "check"]
    /\ UNCHANGED << notRegistry, environ, returned, built, ncalls >>

\* provider_map.contains_key(provider).
ClientForCheck(w) ==
    /\ calls[w].pc = "check"
    /\ calls' = [calls EXCEPT ![w].pc =
                    IF calls[w].provider \in DOMAIN CLIENTS THEN "get" ELSE "build"]
    /\ UNCHANGED << notRegistry, environ, lock, returned, built, ncalls >>

\* The client is built and inserted; a variable that env::var(..).expect(..)
\* does not find panics with the guard held, which poisons the mutex.
ClientForBuild(w) ==
    /\ calls[w].pc = "build"
    /\ LET provider == calls[w].provider
       IN IF {"JELLY_DOMAIN"} \cup ClientEnv(provider) \subseteq environ
          THEN /\ CLIENTS' = [k \in DOMAIN CLIENTS \cup {provider} |->
                                IF k = provider THEN build_client(provider)
                                ELSE CLIENTS[k]]
               /\ built' = [built EXCEPT ![provider] = @ + 1]
               /\ calls' = [calls EXCEPT ![w].pc = "get"]
               /\ UNCHANGED lock
          ELSE /\ lock' = [holder |-> 0, poisoned |-> TRUE]
               /\ calls' = [calls EXCEPT ![w].pc = "idle", ![w].ret = "panic"]
               /\ UNCHANGED << CLIENTS, built >>
    /\ UNCHANGED << db, jar, req, csrf_seq, clock, resp, rendered, cb_done >>
    /\ UNCHANGED << environ, returned, ncalls, pureVars, flashVars, txVars >>

\* provider_map.get(provider): the clone of the cached client is returned and
\* the guard dropped.
ClientForGet(w) ==
    /\ calls[w].pc = "get"
    /\ LET provider == calls[w].provider
           client == IF provider \in DOMAIN CLIENTS THEN CLIENTS[provider] ELSE None
       IN /\ returned' = returned \cup {<< "client_for", provider, client >>}
          /\ calls' = [calls EXCEPT ![w].pc = "idle",
                                    ![w].ret = IF client = None THEN "None" ELSE "Some"]
    /\ lock' = [lock EXCEPT !.holder = IF lock.holder = w THEN 0 ELSE lock.holder]
    /\ UNCHANGED << notRegistry, environ, built, ncalls >>

\* valid_provider(provider) and provider_hints(provider), on LOGIN_HINTS.
HintsCall(w, provider) ==
    /\ ncalls < MaxCalls
    /\ calls[w].pc = "idle"
    /\ ncalls' = ncalls + 1
    /\ returned' = returned \cup {<< "valid_provider", provider, valid_provider(provider) >>,
                                  << "provider_hints", provider, provider_hints(provider) >>}
    /\ UNCHANGED << notRegistry, environ, lock, calls, built >>

\* The registry alone, called by the workers of a process started in one of
\* the environments.
InitRegistry ==
    /\ InitApp /\ environ \in Environments /\ InitRegistryCalls
    /\ InitPure /\ InitFlash /\ InitTxs

NextRegistry ==
    \/ \E w \in Slots, provider \in RegistryKeys : ClientForCall(w, provider)
    \/ \E w \in Slots : ClientForLock(w)
    \/ \E w \in Slots : ClientForCheck(w)
    \/ \E w \in Slots : ClientForBuild(w)
    \/ \E w \in Slots : ClientForGet(w)
    \/ \E w \in Slots, provider \in RegistryKeys : HintsCall(w, provider)

SpecRegistry == InitRegistry /\ [][NextRegistry]_vars

\* -------------------------------------------------------- the deserializers
Deserializers == {"google_de", "twitter_de", "github_de"}

\* The JSON objects a user-info body can be, as a deserializer reads them:
\* each member present or not (absent or null), the id a number for GitHub and
\* a text for the others.
DecodeBodies(de) ==
    {[utf8 |-> TRUE, id |-> i, name |-> n, username |-> u, email |-> e] :
        i \in {None, Some(IF de = "github_de" THEN 12 ELSE to_string(12))},
        n \in {None, Some("n1")},
        u \in {None, Some("u1")},
        e \in {None, Some("a@x"), Some("b@x")}}

\* One call of a deserializer on a body and the email of the flow.
InitDecode ==
    /\ InitApp /\ environ = EnvVars /\ InitRegistryCalls /\ InitFlash /\ InitTxs
    /\ split = [inputs |-> << >>, done |-> FALSE, out |-> << >>]
    /\ \E de \in Deserializers, email \in {"a@x", ""} : \E body \in DecodeBodies(de) :
          decode = [de |-> de, body |-> Some(body), email |-> email, done |-> FALSE,
                    out |-> None]

Decode ==
    /\ ~decode.done
    /\ decode.body # None
    /\ decode' = [decode EXCEPT !.done = TRUE,
                                !.out = user_info_de(decode.de, decode.body[1], decode.email)]
    /\ UNCHANGED << notPure, split >>

NextDecode == Decode

SpecDecode == InitDecode /\ [][NextDecode]_vars

\* ------------------------------------------------------------- split_inputs
\* The characters of the inputs: two ASCII letters of the two cases, a letter
\* of two bytes in UTF-8, and two characters that are not word characters.
Chars == {"a", "A", "e_acute", ".", " "}

\* \w of the regex crate, which is Unicode-aware.
IsWord(c) == c \in {"a", "A", "e_acute"}

\* The length in bytes of the UTF-8 encoding of a character.
Utf8Len(c) == IF c = "e_acute" THEN 2 ELSE 1

\* char::to_lowercase.
to_lowercase(str) == [i \in DOMAIN str |-> IF str[i] = "A" THEN "a" ELSE str[i]]

RECURSIVE len(_)
\* str::len: the number of bytes.
len(str) == IF str = << >> THEN 0 ELSE Utf8Len(Head(str)) + len(Tail(str))

\* splitter.replace_all(input, " ").
replace_all(str) == [i \in DOMAIN str |-> IF IsWord(str[i]) THEN str[i] ELSE " "]

RECURSIVE split_space(_)
\* str::split(' '): the pieces between single spaces, empty ones included.
split_space(str) ==
    IF \A i \in DOMAIN str : str[i] # " "
    THEN << str >>
    ELSE LET i == Min({j \in DOMAIN str : str[j] = " "})
         IN << SubSeq(str, 1, i - 1) >> \o split_space(SubSeq(str, i + 1, Len(str)))

LongEnough(w) == len(w) > 3

\* The words of one input: .filter(|w| w.len() > 3).map(|w| w.to_lowercase()).
words(input) ==
    LET kept == SelectSeq(split_space(replace_all(input)), LongEnough)
    IN [i \in DOMAIN kept |-> to_lowercase(kept[i])]

RECURSIVE push_uniques(_, _)
\* The loop over the words: a word not seen yet is pushed.
push_uniques(result, ws) ==
    IF ws = << >> THEN result
    ELSE push_uniques(IF \E i \in DOMAIN result : result[i] = Head(ws)
                      THEN result ELSE Append(result, Head(ws)),
                      Tail(ws))

RECURSIVE split_loop(_, _)
split_loop(result, inputs) ==
    IF inputs = << >> THEN result
    ELSE split_loop(push_uniques(result, words(Head(inputs))), Tail(inputs))

split_inputs(inputs) == split_loop(<< >>, inputs)

\* The pieces the inputs are put together from.
Pieces ==
    {<< "a", "a", "a", "a" >>, << "A", "a", "a", "a" >>, << "a", "a", "e_acute" >>,
     << "a", "a", "a" >>, << "." >>, << " " >>}

RECURSIVE Strings(_)
\* The texts of at most n pieces.
Strings(n) ==
    IF n = 0 THEN {<< >>}
    ELSE Strings(n - 1) \cup {t \o q : t \in Strings(n - 1), q \in Pieces}

RECURSIVE Lists(_)
\* The lists of at most n texts.
Lists(n) ==
    IF n = 0 THEN {<< >>}
    ELSE Lists(n - 1) \cup {Append(l, t) : l \in Lists(n - 1), t \in Strings(MaxPieces)}

\* One call of split_inputs on a list of inputs.
InitSplit ==
    /\ InitApp /\ environ = EnvVars /\ InitRegistryCalls /\ InitFlash /\ InitTxs
    /\ decode = [de |-> "", body |-> None, email |-> "", done |-> FALSE, out |-> None]
    /\ \E inputs \in Lists(MaxInputs) :
          split = [inputs |-> inputs, done |-> FALSE, out |-> << >>]

Split ==
    /\ ~split.done
    /\ split' = [split EXCEPT !.done = TRUE, !.out = split_inputs(split.inputs)]
    /\ UNCHANGED << notPure, decode >>

NextSplit == Split

SpecSplit == InitSplit /\ [][NextSplit]_vars

\* =============================================================== properties
InFlight == {r \in Slots : req[r].pc # "idle"}

C2_AtMostOneRequestObtainsFlow ==
    \A r1, r2 \in InFlight :
        (/\ r1 # r2
         /\ req[r1].sid = req[r2].sid
         /\ req[r1].client_flow # None
         /\ req[r2].client_flow # None)
        => req[r1].client_flow[1].flow.csrf_token_secret
             # req[r2].client_flow[1].flow.csrf_token_secret

\* C3: a caller without a session user is resolved with no current account and
\* so takes the Login or the Register branch only; Merge, Reject and Link are
\* taken for a caller with a session user, with that user's account id.
C3_AnonymousTakesLoginOrRegister ==
    resp.kind = "confirm" /\ resp.branch # ""
    => IF resp.caller = None
       THEN resp.current = None /\ resp.branch \in {"None", "Login", "Register"}
       ELSE resp.current = Some(resp.caller[1].id)
            /\ resp.branch \in {"None", "Merge", "Reject", "Link"}

\* C4: identity resolution runs for a browser only after a callback of that
\* browser went through to the confirmation form, and for the (provider,
\* username) pair of that form.
C4_ResolveOnlyAfterCallback ==
    [][\A s \in Sessions, form \in LinkIdentityForms, fail \in FailPoints :
          (ConfirmIdentity(s, form, fail) /\ is_valid(form))
          => /\ rendered[s] # None
             /\ rendered[s][1].provider = form.provider
             /\ rendered[s][1].username = form.username
      ]_vars

\* C5: no account owns two identities of the same provider.
C5_OneIdentityPerProvider ==
    \A i, j \in DOMAIN db.identities :
        (i # j /\ db.identities[i].account_id = db.identities[j].account_id)
        => db.identities[i].provider # db.identities[j].provider

\* ---------------------------------------------------------- flash messages
\* The texts reset_password flashes. A FlashMessage is [title, message], and n,
\* the number of the flash call that made it.
FlashTexts ==
    {"Your password was successfully reset.",
     "The link you used is invalid. Please request another password reset."}

\* session.get(SESSION_FLASH): the stored stack, or a new Vec without one.
messages_of(stack) == IF stack = None THEN << >> ELSE stack[1]

\* FlashMessages::get_flash_messages on the SESSION_FLASH key of a session:
\* the messages returned and the key afterwards.
get_flash_messages(stack) ==
    [messages |-> messages_of(stack), stack |-> None]

\* FlashMessages::flash on the SESSION_FLASH key of a session.
flash(stack, m) == Some(Append(messages_of(stack), m))

\* A request whose handler flashes a message: it works on the session it
\* loaded from the cookie it carries.
FlashRequest(r, s, text) ==
    /\ nflash < MaxFlashes
    /\ views[r].pc = "idle"
    /\ LET m == [title |-> "Password Reset", message |-> text, n |-> nflash + 1]
       IN /\ views' = [views EXCEPT ![r] = [pc |-> "respond", sid |-> s,
                                            stack |-> flash(flashes[s], m),
                                            got |-> << >>]]
    /\ nflash' = nflash + 1
    /\ delivered' = Append(delivered, 0)
    /\ UNCHANGED flashes
    /\ UNCHANGED << appVars, regVars, pureVars, txVars >>

\* A request whose handler renders a template, which takes the flash messages.
RenderRequest(r, s) ==
    /\ views[r].pc = "idle"
    /\ LET g == get_flash_messages(flashes[s])
       IN /\ views' = [views EXCEPT ![r] = [pc |-> "respond", sid |-> s,
                                            stack |-> g.stack, got |-> g.messages]]
          /\ delivered' =
                [n \in DOMAIN delivered |->
                    IF \E i \in DOMAIN g.messages : g.messages[i].n = n
                    THEN delivered[n] + 1 ELSE delivered[n]]
    /\ UNCHANGED << flashes, nflash >>
    /\ UNCHANGED << appVars, regVars, pureVars, txVars >>

\* The response of either request sets the cookie to the request's session.
Respond(r) ==
    /\ views[r].pc = "respond"
    /\ flashes' = [flashes EXCEPT ![views[r].sid] = views[r].stack]
    /\ views' = [views EXCEPT ![r] = IdleView]
    /\ UNCHANGED << delivered, nflash >>
    /\ UNCHANGED << appVars, regVars, pureVars, txVars >>

NextFlash ==
    \/ \E r \in Slots, s \in Sessions, text \in FlashTexts : FlashRequest(r, s, text)
    \/ \E r \in Slots, s \in Sessions : RenderRequest(r, s)
    \/ \E r \in Slots : Respond(r)

SpecFlash == Init /\ [][NextFlash]_vars

\* ------------------------------------------- transactions, by statements
\* INSERT INTO accounts ... RETURNING id, the id drawn from the sequence.
InsertAccountWithId(tx, id, name, email, password, last_login) ==
    [tx EXCEPT !.accounts =
        [i \in DOMAIN tx.accounts \cup {id} |->
            IF i = id
            THEN [name |-> name, email |-> email, password |-> password,
                  last_login |-> last_login]
            ELSE tx.accounts[i]]]

\* A statement a transaction has executed and not committed is [op, id, row].
ApplyWrite(d, w) ==
    CASE w.op = "account" ->
           InsertAccountWithId(d, w.id, w.row.name, w.row.email, NO_PASSWORD,
                               w.row.last_login)
      [] w.op = "identity" ->
           InsertIdentity(d, w.id, w.row.provider, w.row.username, w.row.name,
                          w.row.refresh_token)
      [] w.op = "last_login" -> UpdateLastLogin(d, w.id, w.row.now)
      [] w.op = "name" -> UpdateNameAndLastLogin(d, w.id, w.row.name, w.row.now)

RECURSIVE ApplyWrites(_, _)
ApplyWrites(d, writes) ==
    IF writes = << >> THEN d
    ELSE ApplyWrites(ApplyWrite(d, Head(writes)), Tail(writes))

\* What the statements of transaction t read: the committed rows and its own.
TxView(t) == ApplyWrites(db, txs[t].writes)

\* The uncommitted statements of the open transactions other than t, each as
\* << transaction, number of the statement >>.
OpenWrites(t) ==
    {p \in (Slots \ {t}) \X {1, 2} :
        /\ txs[p[1]].pc \in {"stmt1", "stmt2", "commit"}
        /\ p[2] \in DOMAIN txs[p[1]].writes}

\* An open transaction other than t has inserted, and not committed, an
\* account with this address: the INSERT of t waits for it to end.
EmailInDoubt(t, email) ==
    \E p \in OpenWrites(t) :
        LET w == txs[p[1]].writes[p[2]]
        IN w.op = "account" /\ w.row.email = email

\* The same for an identity with this provider and remote username.
IdentityInDoubt(t, provider, username) ==
    \E p \in OpenWrites(t) :
        LET w == txs[p[1]].writes[p[2]]
        IN w.op = "identity" /\ w.row.provider = provider /\ w.row.username = username

\* An open transaction other than t has updated this account: the row is locked.
RowLocked(t, id) ==
    \E p \in OpenWrites(t) :
        LET w == txs[p[1]].writes[p[2]]
        IN w.op \in {"last_login", "name"} /\ w.id = id

\* The uniqueness constraint on Identity: a committed row with this provider
\* and remote username refuses another.
IdentityTaken(d, provider, username) ==
    linked_account_id(d.identities, provider, username) # None

\* The confirmation forms the browsers post at the same time: one remote
\* identity with either address, and another one.
TxForms ==
    {form \in LinkIdentityForms :
        /\ is_valid(form) /\ form.provider = "google" /\ form.name = "n2"
        /\ form.username = "u1" \/ form.email = "b@x"}

\* The databases the transactions start from: no account, or one registered
\* with a password.
TxDatabases ==
    LET empty == [accounts |-> << >>, identities |-> << >>]
    IN {empty, register(empty, [name |-> "n1", email |-> "a@x", password |-> "pw"])}

\* The statement of transaction t fails: the error is returned by `?` and the
\* transaction is dropped without commit.
TxFail(t, error) ==
    /\ db' = Rollback(db, TxView(t))
    /\ txs' = [txs EXCEPT ![t] = [@ EXCEPT !.pc = "err", !.error = error,
                                           !.writes = << >>]]
    /\ UNCHANGED serial

\* confirm_identity up to pool.begin() of merge_identity_and_login.
TxBegin(t, u, form, fail) ==
    /\ txs[t].pc = "idle"
    /\ txs' = [txs EXCEPT ![t] =
                  [IdleTx EXCEPT !.pc = IF fail = 1 THEN "err" ELSE "select",
                                 !.form = Some(form),
                                 !.account_id = CurrentAccountId(db.accounts, u, form),
                                 !.fail = fail,
                                 !.error = IF fail = 1 THEN DbError(1) ELSE ""]]
    /\ UNCHANGED << db, serial >>
    /\ UNCHANGED notTx

\* The SELECT of the linked account and the match on its result.
TxSelect(t) ==
    /\ txs[t].pc = "select"
    /\ LET form == txs[t].form[1]
           linked == linked_account_id(TxView(t).identities, form.provider,
                                       form.username)
           current == txs[t].account_id
           branch == CASE linked # None /\ current = None -> "Login"
                       [] linked = None /\ current = None -> "Register"
                       [] linked # None /\ current # None ->
                            IF linked = current THEN "Merge" ELSE "Reject"
                       [] linked = None /\ current # None -> "Link"
       IN IF txs[t].fail = 2
          THEN TxFail(t, DbError(2))
          ELSE IF branch = "Reject"
          THEN /\ db' = Rollback(db, TxView(t))
               /\ txs' = [txs EXCEPT ![t] = [@ EXCEPT !.pc = "err", !.branch = branch,
                                                      !.error = "LinkedToDifferentAccount"]]
               /\ UNCHANGED serial
          ELSE /\ txs' = [txs EXCEPT ![t] =
                            [@ EXCEPT !.pc = "stmt1", !.branch = branch,
                                      !.id = IF branch = "Login" THEN linked[1]
                                             ELSE IF branch = "Register" THEN 0
                                             ELSE current[1]]]
               /\ UNCHANGED << db, serial >>
    /\ UNCHANGED notTx

\* The first statement of the branch: the INSERT of the account of Register,
\* the UPDATE of the account of the others.
TxAccount(t) ==
    /\ txs[t].pc = "stmt1"
    /\ LET form == txs[t].form[1]
           now == clock + 1
       IN IF txs[t].branch = "Register"
          THEN /\ ~EmailInDoubt(t, form.email)
               /\ IF txs[t].fail = 3 \/ SameEmail(TxView(t), form.email)
                  THEN TxFail(t, DbError(3))
                  ELSE /\ serial' = serial + 1
                       /\ txs' = [txs EXCEPT ![t] =
                                    [@ EXCEPT !.pc = "stmt2", !.id = serial + 1,
                                              !.writes = Append(@,
                                                  [op |-> "account", id |-> serial + 1,
                                                   row |-> [name |-> form.name,
                                                            email |-> form.email,
                                                            last_login |-> Some(now)]])]]
                       /\ UNCHANGED db
          ELSE /\ ~RowLocked(t, txs[t].id)
               /\ IF txs[t].fail = 3 \/ txs[t].id \notin DOMAIN TxView(t).accounts
                  THEN TxFail(t, DbError(3))
                  ELSE /\ txs' = [txs EXCEPT ![t] =
                                    [@ EXCEPT !.pc = IF txs[t].branch = "Link"
                                                     THEN "stmt2" ELSE "commit",
                                              !.writes = Append(@,
                                                  [op |-> IF txs[t].branch = "Merge"
                                                          THEN "name" ELSE "last_login",
                                                   id |-> txs[t].id,
                                                   row |-> [name |-> form.name,
                                                            now |-> now]])]]
                       /\ UNCHANGED << db, serial >>
    /\ UNCHANGED notTx

\* The INSERT of the identity, of Register and of Link.
TxIdentity(t) ==
    /\ txs[t].pc = "stmt2"
    /\ LET form == txs[t].form[1]
       IN /\ ~IdentityInDoubt(t, form.provider, form.username)
          /\ IF txs[t].fail = 4
             THEN TxFail(t, DbError(4))
             ELSE IF IdentityTaken(TxView(t), form.provider, form.username)
             THEN TxFail(t, "Database(unique violation)")
             ELSE /\ txs' = [txs EXCEPT ![t] =
                               [@ EXCEPT !.pc = "commit",
                                         !.writes = Append(@,
                                             [op |-> "identity", id |-> txs[t].id,
                                              row |-> [provider |-> form.provider,
                                                       username |-> form.username,
                                                       name |-> form.name,
                                                       refresh_token |-> None]])]]
                  /\ UNCHANGED << db, serial >>
    /\ UNCHANGED notTx

\* tx.commit().
TxCommit(t) ==
    /\ txs[t].pc = "commit"
    /\ IF txs[t].fail = 5
       THEN TxFail(t, DbError(5))
       ELSE /\ db' = Commit(db, TxView(t))
            /\ txs' = [txs EXCEPT ![t] = [@ EXCEPT !.pc = "ok", !.writes = << >>]]
            /\ UNCHANGED serial
    /\ UNCHANGED notTx

InitTx ==
    /\ InitSess /\ environ = EnvVars /\ InitRegistryCalls /\ InitPure /\ InitFlash
    /\ txs = [t \in Slots |-> IdleTx]
    /\ \E d \in TxDatabases : db = d /\ serial = Len(d.accounts)

NextTx ==
    \/ \E t \in Slots, form \in TxForms, fail \in FailPoints \ {1, 2, 3} :
          \/ TxBegin(t, AnonymousUser, form, fail)
          \/ \E i \in DOMAIN db.accounts :
                TxBegin(t, User(i, db.accounts[i].name), form, fail)
    \/ \E t \in Slots : TxSelect(t)
    \/ \E t \in Slots : TxAccount(t)
    \/ \E t \in Slots : TxIdentity(t)
    \/ \E t \in Slots : TxCommit(t)

SpecTx == InitTx /\ [][NextTx]_vars

\* --------------------------------------------------- identity resolution
\* The account the (provider, username) pair of a form is linked to.
Linked(form) == linked_account_id(db.identities, form.provider, form.username)

\* The step is confirm_identity, for browser s with a valid form, reaching
\* merge_identity_and_login with the database failing at statement `fail`.
Resolves(s, form, fail) == ConfirmIdentity(s, form, fail) /\ is_valid(form)

\* A step is a request to confirm_identity.
ConfirmStep == clock' # clock /\ resp'.kind = "confirm"

UniqueIdentities ==
    \A i, j \in DOMAIN db.identities :
        (/\ db.identities[i].provider = db.identities[j].provider
         /\ db.identities[i].username = db.identities[j].username) => i = j

\* C6: at most one identity row exists per (provider, username): a call whose
\* lookup finds the pair linked takes a linked branch (Login, Merge or Reject)
\* and inserts no identity row, and a row that is inserted is of a pair no row
\* had.
C6_OneIdentityPerRemoteUser ==
    /\ []UniqueIdentities
    /\ [][ConfirmStep =>
            /\ resp'.linked # None =>
                  /\ resp'.branch \in {"Login", "Merge", "Reject"}
                  /\ db'.identities = db.identities
            /\ \A i \in DOMAIN db'.identities \ DOMAIN db.identities :
                  \A j \in DOMAIN db.identities :
                      \/ db.identities[j].provider # db'.identities[i].provider
                      \/ db.identities[j].username # db'.identities[i].username
        ]_vars

\* An identity was registered with its account, and a later call for the same
\* pair logged the caller in.
C6_Witness ==
    /\ resp.kind = "confirm" /\ resp.branch = "Login" /\ resp.error = ""
    /\ resp.linked # None
    /\ Cardinality(DOMAIN db.identities) = 1
    /\ \E a \in DOMAIN db.accounts : db.accounts[a].password = NO_PASSWORD

\* C7: a call of merge_identity_and_login that returns an error leaves both
\* tables as they were; every identity refers to an existing account, and every
\* account created by Register has an identity.
C7_ErrorLeavesTablesUnchanged ==
    /\ [][(ConfirmStep /\ resp'.error # "") => db' = db]_vars
    /\ [](\A i \in DOMAIN db.identities : db.identities[i].account_id \in DOMAIN db.accounts)
    /\ [](\A a \in DOMAIN db.accounts :
            db.accounts[a].password = NO_PASSWORD
            => \E i \in DOMAIN db.identities : db.identities[i].account_id = a)

\* A Register call failed at the insert of the identity, after the insert of
\* the account, with an account in the database already.
C7_Witness ==
    /\ resp.kind = "confirm" /\ resp.branch = "Register" /\ resp.error = DbError(4)
    /\ DOMAIN db.accounts # {}

\* C8: a caller with session account A whose form names an identity the
\* lookup finds linked to another account gets the
\* linked-to-a-different-account error; no row changes and the session keeps A.
C8_RejectChangesNothing ==
    [][(/\ ConfirmStep
        /\ resp'.caller # None
        /\ resp'.linked # None
        /\ resp'.linked # Some(resp'.caller[1].id))
       => /\ resp'.error = "LinkedToDifferentAccount"
          /\ resp'.branch = "Reject"
          /\ resp'.user = None
          /\ db' = db
          /\ jar' = jar
          /\ jar[resp'.sid].sku = resp'.caller
      ]_vars

\* A logged-in caller was refused an identity of another account.
C8_Witness ==
    /\ resp.kind = "confirm" /\ resp.error = "LinkedToDifferentAccount"
    /\ resp.caller # None
    /\ resp.linked # None /\ resp.linked # Some(resp.caller[1].id)
    /\ jar[resp.sid].sku = resp.caller

\* A caller has no session account.
Anonymous(s) == ~is_authenticated(jar[s])

\* C9: when a caller without session account sends a form whose identity is
\* linked to account L and the database does not fail, L's last_login is set
\* to now and nothing else of the two tables changes; the user returned, and
\* stored in the session, has id L and is not anonymous.
C9_LoginUpdatesLastLoginOnly ==
    [][ConfirmStep =>
        \A s \in Sessions, form \in LinkIdentityForms :
            (Anonymous(s) /\ Linked(form) # None /\ Resolves(s, form, 0))
            => LET L == Linked(form)[1]
               IN /\ DOMAIN db'.accounts = DOMAIN db.accounts
                  /\ \A a \in DOMAIN db.accounts \ {L} : db'.accounts[a] = db.accounts[a]
                  /\ db'.accounts[L] = [db.accounts[L] EXCEPT !.last_login = Some(clock')]
                  /\ db'.identities = db.identities
                  /\ resp'.user # None
                  /\ resp'.user[1].id = L
                  /\ ~resp'.user[1].is_anonymous
                  /\ jar'[s].sku = resp'.user
      ]_vars

\* C10: when a caller without session account sends a form whose identity is
\* not linked and the database does not fail, exactly one account (the form's
\* name and email, no password) and exactly one identity (the new account, the
\* form's provider and username) are inserted, no other row changes, and the
\* new account is the user returned; the email of an account created so is the
\* email of no other account.
C10_RegisterInsertsOneAccountOneIdentity ==
    /\ [][ConfirmStep =>
          \A s \in Sessions, form \in LinkIdentityForms :
            (Anonymous(s) /\ Linked(form) = None /\ Resolves(s, form, 0))
            => LET newA == DOMAIN db'.accounts \ DOMAIN db.accounts
                   newI == DOMAIN db'.identities \ DOMAIN db.identities
               IN /\ Cardinality(newA) = 1
                  /\ Cardinality(newI) = 1
                  /\ \A a \in DOMAIN db.accounts :
                        a \in DOMAIN db'.accounts /\ db'.accounts[a] = db.accounts[a]
                  /\ \A i \in DOMAIN db.identities :
                        i \in DOMAIN db'.identities
                        /\ db'.identities[i] = db.identities[i]
                  /\ \A a \in newA, i \in newI :
                        /\ db'.accounts[a].name = form.name
                        /\ db'.accounts[a].email = form.email
                        /\ db'.accounts[a].password = NO_PASSWORD
                        /\ db'.identities[i].account_id = a
                        /\ db'.identities[i].provider = form.provider
                        /\ db'.identities[i].username = form.username
                        /\ resp'.user = Some(User(a, form.name))
                        /\ jar'[s].sku = resp'.user
                        /\ AccountsByEmail(db'.accounts, form.email) = {a}
        ]_vars
    /\ [](\A a \in DOMAIN db.accounts :
            db.accounts[a].password = NO_PASSWORD
            => AccountsByEmail(db.accounts, db.accounts[a].email) = {a})

C12_MergeUpdatesNameAndLastLogin ==
    [][(ConfirmStep /\ resp'.error = "") =>
        \A s \in Sessions, form \in LinkIdentityForms :
            (/\ is_authenticated(jar[s])
             /\ Linked(form) = Some(user(jar[s]).id)
             /\ Resolves(s, form, 0))
            => LET A == user(jar[s]).id
               IN /\ DOMAIN db'.accounts = DOMAIN db.accounts
                  /\ \A a \in DOMAIN db.accounts \ {A} : db'.accounts[a] = db.accounts[a]
                  /\ db'.accounts[A] = [db.accounts[A] EXCEPT !.name = form.name,
                                                              !.last_login = Some(clock')]
                  /\ db'.accounts[A].last_login # db.accounts[A].last_login
                  /\ db'.identities = db.identities
                  /\ resp'.user = Some(User(A, form.name))
                  /\ jar'[s].sku = resp'.user
      ]_vars

\* A logged-in caller confirmed its own identity under a new name.
C12_Witness ==
    /\ resp.kind = "confirm" /\ resp.branch = "Merge" /\ resp.error = ""
    /\ resp.caller # None
    /\ resp.linked = Some(resp.caller[1].id)
    /\ resp.caller[1].name # resp.user[1].name
    /\ db.accounts[resp.caller[1].id].name = resp.user[1].name

\* The outcome the two axes and the equality of the two accounts select.
Outcome(linked, current) ==
    CASE linked # None /\ current = None -> "Login"
      [] linked = None /\ current = None -> "Register"
      [] linked # None /\ current # None /\ linked = current -> "Merge"
      [] linked # None /\ current # None /\ linked # current -> "Reject"
      [] linked = None /\ current # None -> "Link"

\* C13: a call of merge_identity_and_login whose lookup was answered takes
\* exactly the one of Login, Register, Merge, Reject and Link that the result
\* of the lookup, the current account passed in and their equality select; the
\* result of the lookup is an account some identity row is linked to.
C13_OutcomeDeterminedByTwoAxes ==
    [][(ConfirmStep /\ resp'.branch \notin {"", "None"}) =>
          /\ resp'.branch \in {"Login", "Register", "Merge", "Reject", "Link"}
          /\ resp'.branch = Outcome(resp'.linked, resp'.current)
          /\ resp'.linked # None =>
                \E i \in DOMAIN db.identities :
                    db.identities[i].account_id = resp'.linked[1]
      ]_vars

\* A call with both axes present and two different accounts, the third of
\* three calls that took three different outcomes.
C13_Witness ==
    /\ resp.kind = "confirm" /\ resp.branch = "Reject"
    /\ resp.linked # None /\ resp.current # None /\ resp.linked # resp.current
    /\ Cardinality(DOMAIN db.accounts) = 2
    /\ Cardinality(DOMAIN db.identities) = 2

\* ---------------------------------------------------- callback validation
\* A step is the arrival of a callback request, which runs validate_inputs.
CallbackStep == clock' # clock /\ req' # req

\* The slots a callback request arrives in with this step.
Arrived == {r \in Slots : req[r].pc = "idle" /\ req'[r].pc # "idle"}

\* The step is the arrival in slot r of a callback with `query`.
Validates(r, query) == CallbackBegin(r, req'[r].sid, query)

\* The flow the cookie of the browser of the request arriving in slot r holds.
StoredFlow(r) == jar[req'[r].sid].flow

\* C14: validation of a callback without flow in its session yields
\* ParseSessionError whatever the query, error parameter included; with a flow
\* and an error parameter it yields GrantAuthorizationError with the parameter
\* as message, whatever state and code are.
C14_ValidationOrder ==
    [][CallbackStep =>
        \A r \in Arrived :
            \A query \in Queries :
                Validates(r, query) =>
                    /\ StoredFlow(r) = None =>
                          /\ req'[r].error = "ParseSessionError"
                          /\ req'[r].pc = "respond"
                    /\ (StoredFlow(r) # None /\ query.error # None) =>
                          /\ req'[r].error = "GrantAuthorizationError"
                          /\ req'[r].message = query.error[1]
                          /\ req'[r].pc = "respond"
      ]_vars

\* A callback of a browser with a stored flow was refused with the message of
\* its error parameter.
C14_Witness ==
    \E r \in InFlight :
        /\ req[r].error = "GrantAuthorizationError"
        /\ req[r].message = "server_error"
        /\ req[r].pc = "respond"
        /\ jar[req[r].sid].flow # None
        /\ req[r].session.flow = None

\* C15: validation of a callback with a flow, without error parameter and with
\* state and code yields VerifyStateError when the state differs from the
\* stored CSRF secret; when it is the same and the provider of the flow has a
\* client, it succeeds with the flow whose authorization_code is the query's
\* code and whose other fields are as stored.
C15_StateVerification ==
    [][CallbackStep =>
        \A r \in Arrived :
            \A query \in Queries :
                (/\ query.error = None /\ query.state # None /\ query.code # None
                 /\ StoredFlow(r) # None
                 /\ Validates(r, query))
                => LET flow == StoredFlow(r)[1]
                   IN IF query.state[1] # flow.csrf_token_secret
                      THEN /\ req'[r].error = "VerifyStateError"
                           /\ req'[r].pc = "respond"
                           /\ req'[r].client_flow = None
                      ELSE build_client(flow.provider) # None =>
                           /\ req'[r].error = ""
                           /\ req'[r].pc = "token"
                           /\ req'[r].client_flow # None
                           /\ req'[r].client_flow[1].client = build_client(flow.provider)[1]
                           /\ req'[r].client_flow[1].flow.authorization_code = query.code[1]
                           /\ req'[r].client_flow[1].flow.provider = flow.provider
                           /\ req'[r].client_flow[1].flow.email = flow.email
                           /\ req'[r].client_flow[1].flow.csrf_token_secret =
                                 flow.csrf_token_secret
                           /\ req'[r].client_flow[1].flow.pkce_verifier_secret =
                                 flow.pkce_verifier_secret
      ]_vars

\* A callback whose state is the stored secret was validated, and the flow
\* handed on carries its code.
C15_Witness ==
    \E r \in InFlight :
        /\ req[r].pc = "token"
        /\ req[r].client_flow # None
        /\ req[r].client_flow[1].flow.authorization_code = "c1"
        /\ jar[req[r].sid].flow # None
        /\ req[r].client_flow[1].flow.csrf_token_secret =
              jar[req[r].sid].flow[1].csrf_token_secret
        /\ jar[req[r].sid].flow[1].authorization_code = ""

\* C16: validation of a callback with a flow, without error parameter and
\* without state or without code yields ParseRequestError, whatever the state
\* is when there is one.
C16_MissingStateOrCode ==
    [][CallbackStep =>
        \A r \in Arrived :
            \A query \in Queries :
                (/\ query.error = None
                 /\ (query.state = None \/ query.code = None)
                 /\ StoredFlow(r) # None
                 /\ Validates(r, query))
                => /\ req'[r].error = "ParseRequestError"
                   /\ req'[r].pc = "respond"
                   /\ req'[r].client_flow = None
      ]_vars

\* A callback of a browser with a stored flow was refused for its query, and
\* the cookie of the browser still holds the flow the request has removed.
C16_Witness ==
    \E r \in InFlight :
        /\ req[r].error = "ParseRequestError"
        /\ req[r].pc = "respond"
        /\ jar[req[r].sid].flow # None
        /\ req[r].session.flow = None

\* ------------------------------------------------------- the refresh token
\* The last response answered a fresh login initiation of a browser: the login
\* form was rendered, or authenticate stored a new flow.
FreshInitiation ==
    \/ resp.kind = "form" /\ resp.status = "200"
    \/ /\ resp.kind = "authenticate" /\ resp.status = "302"
       /\ ~is_authenticated(jar[resp.sid])
       /\ jar[resp.sid].flow # None

\* C17: after a fresh login initiation the session of the browser holds no
\* refresh token.
C17_InitiationClearsRefreshToken ==
    FreshInitiation => jar[resp.sid].token = None

\* The errors of the token exchange and of the user-info fetch.
ExchangeErrors == {"GrantTokenError", "FetchProfileError", "DecodeProfileError"}

\* C18: a token exchange or a user-info fetch that fails leaves the session of
\* its request as validation left it, with no refresh token in it.
C18_FailedStepLeavesSession ==
    [][\A r \in Slots :
         (/\ req[r].pc \in {"token", "userinfo"}
          /\ req'[r].pc = "respond"
          /\ req'[r].error \in ExchangeErrors)
         => /\ req'[r].session = req[r].session
            /\ req'[r].session.token = None]_vars

\* The refresh token the most recent callback of browser `s` that went through
\* to the confirmation form had in its token response: None when that response
\* carried none, or when no callback of `s` went through.
LastCallbackToken(s) == IF rendered[s] = None THEN None ELSE rendered[s][1].refresh_token

\* C19: a user-info fetch stores the refresh token of its token response in the
\* session, and writes nothing and goes on when the response carries none; and
\* the refresh token identity resolution is given is the one of the most recent
\* callback of the browser that went through.
C19_RefreshTokenOfLastCallback ==
    /\ [][\A r \in Slots :
            (req[r].pc = "userinfo" /\ req'[r].pc # "userinfo")
            => LET refresh_token == req[r].token_info[1].response.refresh_token
               IN IF refresh_token # None
                  THEN req'[r].session = [req[r].session EXCEPT !.token = refresh_token]
                  ELSE /\ req'[r].session = req[r].session
                       /\ req'[r].error \in {"", "FetchProfileError",
                                              "DecodeProfileError"}]_vars
    /\ [][(ConfirmStep /\ resp'.branch # "")
          => resp'.refresh_token = LastCallbackToken(resp'.sid)]_vars

\* ------------------------------------------------- the steps of a callback
\* The place of a step in exchange_code_for_token's chain.
Rank(pc) ==
    CASE pc = "idle" -> 0 [] pc = "token" -> 1 [] pc = "userinfo" -> 2
      [] pc = "finalize" -> 3 [] pc = "respond" -> 4

\* The errors the step taken from `pc` can end the request with.
StepErrors(pc) ==
    CASE pc = "idle" -> {"ParseSessionError", "GrantAuthorizationError",
                         "VerifyStateError", "ParseRequestError"}
      [] pc = "token" -> {"GrantTokenError"}
      [] pc = "userinfo" -> {"FetchProfileError", "DecodeProfileError"}
      [] pc = "finalize" -> {}
      [] pc = "respond" -> {}

\* What a request that ended with `error` has of the later steps: nothing.
NoLaterStep(q) ==
    /\ q.error \in StepErrors("idle") => q.client_flow = None /\ q.token_info = None
    /\ q.error \in StepErrors("token") => q.token_info = None /\ q.user_info = None
    /\ q.error \in StepErrors("userinfo") => q.user_info = None
    /\ q.error # "" => q.pc = "respond" /\ q.form = None

AuthenticateStep == clock' # clock /\ resp'.kind = "authenticate"

Clients(provider) == {t[3] : t \in {u \in returned : u[1] = "client_for" /\ u[2] = provider}}

\* C22: client_for returns nothing for a key that is not a known provider key
\* and the cache gets no entry for it; the clients it returns for a known key
\* all have the same configuration.
C22_ClientForByKey ==
    /\ DOMAIN CLIENTS \subseteq KnownProviders
    /\ \A provider \in RegistryKeys \ KnownProviders : Clients(provider) \subseteq {None}
    /\ \A provider \in KnownProviders :
          /\ None \notin Clients(provider)
          /\ Cardinality(Clients(provider)) <= 1

\* client_for has returned nothing for the unknown key, and a client for the
\* same known key to each of two workers.
C22_Witness ==
    /\ << "client_for", "gitlab", None >> \in returned
    /\ calls[1].provider = "google" /\ calls[1].ret = "Some"
    /\ calls[2].provider = "google" /\ calls[2].ret = "Some"
    /\ Cardinality(Clients("google")) = 1

\* C23: however the client_for calls of the workers interleave, the client of
\* a provider key is built at most once, a cache entry is never removed or
\* replaced, and the callers for one key are given equal clients.
C23_BuiltOnceNeverReplaced ==
    /\ [](\A provider \in KnownProviders :
            /\ built[provider] <= 1
            /\ provider \in DOMAIN CLIENTS <=> built[provider] = 1
            /\ \A c \in Clients(provider) : c = CLIENTS[provider])
    /\ [][\A provider \in DOMAIN CLIENTS :
            provider \in DOMAIN CLIENTS' /\ CLIENTS'[provider] = CLIENTS[provider]]_vars

\* Two workers are in client_for for the same key: one has built the client
\* and holds the mutex, the other waits for it.
C23_Witness ==
    /\ calls[1].provider = "github" /\ calls[2].provider = "github"
    /\ calls[1].pc = "get" /\ lock.holder = 1
    /\ calls[2].pc = "lock"
    /\ built["github"] = 1

\* A provider all of whose variables the process has.
Configured(provider) == {"JELLY_DOMAIN"} \cup ClientEnv(provider) \subseteq environ

\* C30: a variable missing for one provider touches the calls for that
\* provider only: client_for for a provider that has its variables does not
\* fail, and valid_provider and provider_hints answer as they always do.
C30_MissingVariableIsLocal ==
    /\ \A w \in Slots : calls[w].ret = "panic" => ~Configured(calls[w].provider)
    /\ \A t \in returned :
          /\ t[1] = "valid_provider" => t[3] = (t[2] \in KnownProviders)
          /\ t[1] = "provider_hints" =>
                t[3] = IF t[2] \in KnownProviders
                       THEN Some([uses_email_hint |-> t[2] = "google"]) ELSE None

\* ------------------------------------------------------- errors, not panics
\* The errors of the OAuth error taxonomy a callback can end with.
CallbackErrors ==
    {"ParseSessionError", "GrantAuthorizationError", "VerifyStateError",
     "ParseRequestError", "GrantTokenError", "FetchProfileError", "DecodeProfileError"}

\* C24: a callback that fails hands the handler one of the errors of the
\* taxonomy; no failure panics.
C24_FailuresAreErrorValues ==
    \A r \in Slots :
        /\ req[r].pc # "panicked"
        /\ req[r].error # "" => req[r].error \in CallbackErrors

\* --------------------------------------------------------- the deserializers
\* C25: a body that a deserializer accepts yields a UserInfo whose login_email
\* is the email of the flow, whatever email the body has, if any.
C25_LoginEmailIsTheHint ==
    (decode.done /\ decode.out # None) => decode.out[1].login_email = decode.email

\* Google's body was decoded with an email that differs from the email of the
\* flow.
C25_Witness ==
    /\ decode.done /\ decode.de = "google_de" /\ decode.out # None
    /\ decode.email = "a@x"
    /\ decode.out[1].provider_email = Some("b@x")
    /\ decode.out[1].login_email = "a@x"

\* C26: github_de turns the id into its decimal digits, login into username
\* and the email, if any, into provider_email, and a body without a name is
\* decoded with the empty name.
C26_GithubDecoder ==
    (/\ decode.done /\ decode.de = "github_de"
     /\ decode.body[1].id # None /\ decode.body[1].username # None)
    => /\ decode.out # None
       /\ decode.out[1].id = to_string(decode.body[1].id[1])
       /\ decode.out[1].username = decode.body[1].username[1]
       /\ decode.out[1].provider_email = decode.body[1].email
       /\ decode.out[1].name = IF decode.body[1].name = None THEN ""
                               ELSE decode.body[1].name[1]

\* -------------------------------------------------------------- split_inputs
CharsEnough(w) == Len(w) > 3

\* The lower-cased words of more than 3 characters of all the inputs, each
\* once, in the order they first occur.
LongWords(inputs) ==
    LET RECURSIVE all(_)
        all(l) == IF l = << >> THEN << >>
                  ELSE LET kept == SelectSeq(split_space(replace_all(Head(l))), CharsEnough)
                       IN [i \in DOMAIN kept |-> to_lowercase(kept[i])] \o all(Tail(l))
    IN push_uniques(<< >>, all(inputs))

\* C28: split_inputs returns the lower-cased words of its inputs that are
\* longer than 3 characters, without duplicates, in order of first occurrence.
C28_SplitInputs ==
    split.done => split.out = LongWords(split.inputs)

\* ---------------------------------------------------------- flash messages
\* C27: a flashed message is returned by one get_flash_messages at most, the
\* call that takes it off the stack of its session: no message is delivered to
\* more than one render.
C27_FlashedDeliveredOnce ==
    \A n \in DOMAIN delivered : delivered[n] <= 1

\* ------------------------------------------- transactions, by statements
\* The transactions that ended with that result in that branch.
Ended(pc, branch) == {t \in Slots : txs[t].pc = pc /\ txs[t].branch = branch}

IdentitiesOf(provider, username) ==
    {i \in DOMAIN db.identities :
        db.identities[i].provider = provider /\ db.identities[i].username = username}

\* The accounts a Register has inserted: they have no password.
RegisteredAccounts ==
    {i \in DOMAIN db.accounts : db.accounts[i].password = NO_PASSWORD}

\* C29: of the transactions that resolve the same remote identity at the same
\* time, at most one commits an Identity row for it, and a transaction that
\* fails leaves no Account and no Identity row: the rows are those of the
\* transactions that committed.
C29_OneIdentityPerRemoteUser ==
    /\ \A form \in TxForms :
          Cardinality(IdentitiesOf(form.provider, form.username)) <= 1
    /\ Cardinality(RegisteredAccounts) = Cardinality(Ended("ok", "Register"))
    /\ Cardinality(DOMAIN db.identities)
          = Cardinality(Ended("ok", "Register")) + Cardinality(Ended("ok", "Link"))

\* Two transactions found the same remote identity unlinked; one committed
\* its row and the other was refused, one a Register and the other a Link.
C29_Witness ==
    \E t \in Slots, u \in Slots :
        /\ txs[t].pc = "ok" /\ txs[t].branch = "Link"
        /\ txs[u].pc = "err" /\ txs[u].branch = "Register"
        /\ txs[u].error = "Database(unique violation)"
        /\ txs[u].id # 0
        /\ txs[t].form[1].username = txs[u].form[1].username
        /\ Cardinality(IdentitiesOf("google", txs[t].form[1].username)) = 1

====
